---- MODULE Spec2Model ----
(***************************************************************************)
(* Model of compound-errors' withErrors (src/src/withErrors.ts).           *)
(*                                                                         *)
(* The heap holds the objects the program touches: the callables and       *)
(* classes handed to withErrors, the classes' prototype objects and method *)
(* functions, Object.prototype with one built-in method, and instances.    *)
(* An object is an ordered list of own properties (ECMAScript keeps        *)
(* creation order) and a [[Prototype]] link.  Values are strings: the id   *)
(* of an object, or a primitive token.                                     *)
(***************************************************************************)
EXTENDS Naturals, Sequences, FiniteSets

VARIABLES heap, instances, last, thrown, given, ncalls

vars == <<heap, instances, last, thrown, given, ncalls>>

(* ------------------------------ bounds --------------------------------- *)
MaxCalls == 2
MaxInstances == 1

(* ------------------------------ values --------------------------------- *)
Undefined == "undefined"
Null == "null"

\* error constructors (class CustomError extends Error {}, README's ValidationError)
Ctors == {"CustomError", "ValidationError"}

\* callables handed to withErrors
Callables == {"test", "originalFunction"}

\* classes handed to withErrors
Classes == {"MyClass", "SubClass", "AnonClass"}

\* method functions living on prototype objects
Methods == {"MyClass.method1", "MyClass.method2", "SubClass.method3",
            "AnonClass.method1", "Object.valueOf"}

FunctionObjects == Ctors \cup Callables \cup Classes \cup Methods

Prototypes == {"MyClass.prototype", "SubClass.prototype", "AnonClass.prototype",
               "Object.prototype"}

\* property keys that are symbols (never visited by for-in)
Symbols == {"@@tag"}

\* error-slot names used by the configs
SlotNames == {"CustomError", "NetworkError", "name", "@@tag"}

\* method-name keys used by the class configs
MethodNames == {"method1", "valueOf", "constructor", "version", "noSuchMethod"}

(* --------------------------- property lists ---------------------------- *)
Prop(k, v, w, e) == [key |-> k, value |-> v, writable |-> w, enumerable |-> e]

\* a property as an object literal or a plain assignment creates it
DataProp(k, v) == Prop(k, v, TRUE, TRUE)

\* a method of a class body: writable, not enumerable
MethodProp(k, v) == Prop(k, v, TRUE, FALSE)

\* the built-in name and length of a function: not writable, not enumerable
ReadOnlyProp(k, v) == Prop(k, v, FALSE, FALSE)

Obj(ps, pr) == [props |-> ps, proto |-> pr]

\* an arrow function or a method: no own `prototype`
FunctionObj(nm) ==
    Obj(<<ReadOnlyProp("length", "num:0"), ReadOnlyProp("name", nm)>>, "Function.prototype")

ClassObj(nm, prototype, parent) ==
    Obj(<<ReadOnlyProp("length", "num:0"), ReadOnlyProp("name", nm),
          ReadOnlyProp("prototype", prototype)>>, parent)

HasOwn(o, k) == \E i \in 1..Len(o.props) : o.props[i].key = k

OwnIndex(o, k) == CHOOSE i \in 1..Len(o.props) : o.props[i].key = k

OwnProp(o, k) == o.props[OwnIndex(o, k)]

(* ---------------------------- config objects --------------------------- *)
\* The error configs a caller writes.  They are never written to by
\* withErrors, so they live outside the mutable heap.
\*   errors.CustomError  { CustomError }
\*   errors.Validation   { CustomError: ValidationError }
\*   errors.Network      { NetworkError: ValidationError }
\*   errors.name         { name: CustomError }
\*   errors.inherited    Object.create({ CustomError })
\*   errors.symbol       { [Symbol.for('tag')]: CustomError }
ErrorConfigs ==
    [id \in {"errors.CustomError", "errors.Validation", "errors.Network",
              "errors.name", "errors.inherited", "errors.symbol"} |->
        CASE id = "errors.CustomError" -> Obj(<<DataProp("CustomError", "CustomError")>>, "Object.prototype")
          [] id = "errors.Validation" -> Obj(<<DataProp("CustomError", "ValidationError")>>, "Object.prototype")
          [] id = "errors.Network" -> Obj(<<DataProp("NetworkError", "ValidationError")>>, "Object.prototype")
          [] id = "errors.name" -> Obj(<<DataProp("name", "CustomError")>>, "Object.prototype")
          [] id = "errors.inherited" -> Obj(<<>>, "errors.CustomError")
          [] id = "errors.symbol" -> Obj(<<DataProp("@@tag", "CustomError")>>, "Object.prototype")]

ErrorConfigIds == DOMAIN ErrorConfigs

\* what a caller may put where an error config is expected (null: malformed)
ErrorConfigValues == ErrorConfigIds \cup {Null}

\* the object literal { methodName: errors }
MethodConfig(methodName, errors) == Obj(<<DataProp(methodName, errors)>>, "Object.prototype")

\* the object literal
\*   { noSuchMethod: { NetworkError: ValidationError }, method1: { CustomError } }
TwoKeyConfig ==
    Obj(<<DataProp("noSuchMethod", "errors.Network"),
          DataProp("method1", "errors.CustomError")>>, "Object.prototype")

\* method configs: the error configs (but one) for method1, { CustomError }
\* for every method name
ClassConfigs ==
    {MethodConfig("method1", e) : e \in ErrorConfigValues \ {"errors.Network"}}
        \cup {MethodConfig(m, "errors.CustomError") : m \in MethodNames}
        \cup {TwoKeyConfig}

(* ------------------------- ECMAScript operations ----------------------- *)
IsObject(h, v) == v \in DOMAIN h \/ v \in ErrorConfigIds

\* the object a reference denotes
View(h, id) == IF id \in ErrorConfigIds THEN ErrorConfigs[id] ELSE h[id]

\* typeof v
TypeOf(h, v) ==
    IF v \in FunctionObjects THEN "function"
    ELSE IF v = Undefined THEN "undefined"
    ELSE IF IsObject(h, v) \/ v = Null THEN "object"
    ELSE "primitive"

RECURSIVE Get(_, _, _)
\* o[k] for an object o: own property, else up the prototype chain
Get(h, o, k) ==
    IF HasOwn(o, k) THEN OwnProp(o, k).value
    ELSE IF o.proto = Null THEN Undefined
    ELSE Get(h, View(h, o.proto), k)

\* v[k] for a reference v
GetV(h, v, k) == Get(h, View(h, v), k)

RECURSIVE FindHolder(_, _, _)
\* the first object on id's prototype chain that has k as an own property
FindHolder(h, id, k) ==
    IF id = Null THEN Null
    ELSE IF HasOwn(View(h, id), k) THEN id
    ELSE FindHolder(h, View(h, id).proto, k)

\* (variant: the assignment reports success and writes nothing)
OrdinarySetNoWrite(h, id, k, v) == [ok |-> TRUE, heap |-> h]

\* OrdinarySet(id, k, v, receiver = id): [ok, heap]
OrdinarySet(h, id, k, v) ==
    LET holder == FindHolder(h, id, k) IN
    IF holder = Null
    THEN [ok |-> TRUE,
          heap |-> [h EXCEPT ![id].props = Append(@, DataProp(k, v))]]
    ELSE IF ~OwnProp(View(h, holder), k).writable
    THEN [ok |-> FALSE, heap |-> h]
    ELSE IF holder = id
    THEN [ok |-> TRUE,
          heap |-> [h EXCEPT ![id].props[OwnIndex(h[id], k)].value = v]]
    ELSE [ok |-> TRUE,
          heap |-> [h EXCEPT ![id].props = Append(@, DataProp(k, v))]]

KeysOf(ps) == [i \in 1..Len(ps) |-> ps[i].key]

IsString(k) == k \notin Symbols
IsSymbol(k) == k \in Symbols
IsEnumerable(p) == p.enumerable

\* own enumerable keys in [[OwnPropertyKeys]] order: strings, then symbols
OwnEnumerableKeys(o) ==
    LET es == KeysOf(SelectSeq(o.props, IsEnumerable))
    IN SelectSeq(es, IsString) \o SelectSeq(es, IsSymbol)

RECURSIVE ForInObj(_, _, _)
\* for-in over an object: enumerable string keys, own first, then the
\* prototype chain; a key is hidden by any earlier property of that name
ForInObj(h, o, seen) ==
    LET unseen(p) == p.key \notin seen
        mine == SelectSeq(KeysOf(SelectSeq(SelectSeq(o.props, unseen), IsEnumerable)), IsString)
        all == seen \cup {o.props[i].key : i \in 1..Len(o.props)}
    IN mine \o (IF o.proto = Null THEN <<>> ELSE ForInObj(h, View(h, o.proto), all))

\* the keys `for (const k in v)` visits; null and undefined give none
ForInKeys(h, v) == IF IsObject(h, v) THEN ForInObj(h, View(h, v), {}) ELSE <<>>

(* ------------------------------ the heap ------------------------------- *)
\* Function.prototype.toString(): the source text of each function.
\*   MyClass           class MyClass { method1() {...} method2() {} }
\*                     with MyClass.prototype.version = 1
\*   SubClass          class SubClass extends MyClass { method3() {} }
\*   AnonClass         class{ method1() {...} }        (no space after `class`)
\*   test              () => { throw new test.CustomError(); }
\*   originalFunction  () => { throw new CustomError(); }
\*   a method          method1() {...}
\* Bodies are elided to `{}` and long names shortened: only the head of the
\* text is inspected.
SourceText ==
    [f \in FunctionObjects |->
        CASE f = "MyClass" -> <<"c","l","a","s","s"," ","M","y","C","l","a","s","s"," ","{","}">>
          [] f = "SubClass" -> <<"c","l","a","s","s"," ","S","u","b","C","l","a","s","s"," ","{","}">>
          [] f = "AnonClass" -> <<"c","l","a","s","s","{","}">>
          [] f = "test" -> <<"(",")"," ","=",">"," ","{","}">>
          [] f = "originalFunction" -> <<"(",")"," ","=",">"," ","{","}">>
          [] f \in Ctors -> <<"c","l","a","s","s"," ","E"," ","{","}">>
          [] f = "Object.valueOf" -> <<"f","u","n","c","t","i","o","n"," ","v","(",")"," ","{","}">>
          [] OTHER -> <<"m","(",")"," ","{","}">>]

HeapIds == FunctionObjects \cup Prototypes \cup {"Function.prototype"}

InitHeap ==
    [id \in HeapIds |->
        CASE id = "Object.prototype" -> Obj(<<MethodProp("valueOf", "Object.valueOf")>>, Null)
          [] id = "Function.prototype" -> Obj(<<>>, "Object.prototype")
          [] id = "CustomError" -> ClassObj("str:CustomError", "CustomError.prototype", "Function.prototype")
          [] id = "ValidationError" -> ClassObj("str:ValidationError", "ValidationError.prototype", "Function.prototype")
          [] id = "MyClass" -> ClassObj("str:MyClass", "MyClass.prototype", "Function.prototype")
          [] id = "SubClass" -> ClassObj("str:SubClass", "SubClass.prototype", "MyClass")
          [] id = "AnonClass" -> ClassObj("str:", "AnonClass.prototype", "Function.prototype")
          [] id = "MyClass.prototype" ->
                Obj(<<MethodProp("constructor", "MyClass"), MethodProp("method1", "MyClass.method1"),
                      MethodProp("method2", "MyClass.method2"),
                      DataProp("version", "num:1")>>, "Object.prototype")
          [] id = "SubClass.prototype" ->
                Obj(<<MethodProp("constructor", "SubClass"), MethodProp("method3", "SubClass.method3")>>,
                    "MyClass.prototype")
          [] id = "AnonClass.prototype" ->
                Obj(<<MethodProp("constructor", "AnonClass"), MethodProp("method1", "AnonClass.method1")>>,
                    "Object.prototype")
          [] id \in {"MyClass.method1", "AnonClass.method1"} -> FunctionObj("str:method1")
          [] id = "MyClass.method2" -> FunctionObj("str:method2")
          [] id = "SubClass.method3" -> FunctionObj("str:method3")
          [] id = "Object.valueOf" -> FunctionObj("str:valueOf")
          [] id = "test" -> FunctionObj("str:test")
          [] id = "originalFunction" -> FunctionObj("str:originalFunction")]

(* ------------------------------ withErrors ----------------------------- *)
RECURSIVE StartsWith(_, _)
\* String.prototype.startsWith
StartsWith(text, prefix) ==
    IF prefix = <<>> THEN TRUE
    ELSE IF text = <<>> THEN FALSE
    ELSE Head(text) = Head(prefix) /\ StartsWith(Tail(text), Tail(prefix))

\* input.toString() of a function
ToString(input) == SourceText[input]

isClass(h, input) ==
    TypeOf(h, input) = "function" /\ StartsWith(ToString(input), <<"c","l","a","s","s"," ">>)

\* (variant: the call hands back a new object standing for the target)
CompletedWithCopy(h, ret) == [threw |-> FALSE, ret |-> "copy", heap |-> h]

Completed(h, ret) == [threw |-> FALSE, ret |-> ret, heap |-> h]

\* a TypeError leaves the writes made so far in place
Threw(h) == [threw |-> TRUE, ret |-> Undefined, heap |-> h]

RECURSIVE MergeErrors(_, _, _, _, _)
\* lines 52-54: for (const errorName in errors)
\*                 BaseClass.prototype[methodName][errorName] = errors[errorName]
\* (module code is strict: a failed assignment throws)
MergeErrors(h, BaseClass, methodName, errors, errorNames) ==
    IF errorNames = <<>> THEN Completed(h, BaseClass)
    ELSE LET method == GetV(h, GetV(h, BaseClass, "prototype"), methodName)
             r == OrdinarySet(h, method, Head(errorNames), GetV(h, errors, Head(errorNames)))
         IN IF r.ok
            THEN MergeErrors(r.heap, BaseClass, methodName, errors, Tail(errorNames))
            ELSE Threw(r.heap)

RECURSIVE MergeMethodsLooseCheck(_, _, _, _)
\* (variant: the guard is `!== 'undefined'`; assigning a property on a
\* primitive entry throws in strict code)
MergeMethodsLooseCheck(h, BaseClass, errorConfig, methodNames) ==
    IF methodNames = <<>> THEN Completed(h, BaseClass)
    ELSE LET methodName == Head(methodNames)
             errors == Get(h, errorConfig, methodName)
             entry == GetV(h, GetV(h, BaseClass, "prototype"), methodName)
             r == IF TypeOf(h, entry) = "function"
                  THEN MergeErrors(h, BaseClass, methodName, errors, ForInKeys(h, errors))
                  ELSE IF entry # Undefined /\ ForInKeys(h, errors) # <<>> THEN Threw(h)
                  ELSE Completed(h, BaseClass)
         IN IF r.threw THEN r
            ELSE MergeMethodsLooseCheck(r.heap, BaseClass, errorConfig, Tail(methodNames))

RECURSIVE MergeMethods(_, _, _, _)
\* lines 49-56: for (const methodName in errorConfig)
MergeMethods(h, BaseClass, errorConfig, methodNames) ==
    IF methodNames = <<>> THEN Completed(h, BaseClass)
    ELSE LET methodName == Head(methodNames)
             errors == Get(h, errorConfig, methodName)
             r == IF TypeOf(h, GetV(h, GetV(h, BaseClass, "prototype"), methodName)) = "function"
                  THEN MergeErrors(h, BaseClass, methodName, errors, ForInKeys(h, errors))
                  ELSE Completed(h, BaseClass)
         IN IF r.threw THEN r
            ELSE MergeMethods(r.heap, BaseClass, errorConfig, Tail(methodNames))

RECURSIVE ObjectAssign(_, _, _, _)
\* Object.assign(fn, errors): Set(fn, key, errors[key], true) for each own
\* enumerable key; returns fn
ObjectAssign(h, fn, errors, keys) ==
    IF keys = <<>> THEN Completed(h, fn)
    ELSE LET r == OrdinarySet(h, fn, Head(keys), Get(h, errors, Head(keys)))
         IN IF r.ok THEN ObjectAssign(r.heap, fn, errors, Tail(keys))
            ELSE Threw(r.heap)

\* withErrors(target, config): the branch taken and its outcome [threw, ret, heap]
withErrors(h, target, config) ==
    IF isClass(h, target)
    THEN [mode |-> "class", r |-> MergeMethods(h, target, config, ForInObj(h, config, {}))]
    ELSE [mode |-> "callable", r |-> ObjectAssign(h, target, config, OwnEnumerableKeys(config))]

(* ----------------------------- the callers ----------------------------- *)
\* What each function body does when called (src/src/withErrors.test.ts):
\*   test                    throw new test.CustomError()
\*   originalFunction        throw new CustomError()
\*   method1 of a class      throw new CustomError()
\*   the other methods       return
TypedSlot == "CustomError"

\* the prototype chain of an instance of an error constructor
ErrorChain(ctor) ==
    IF ctor = "TypeError" THEN {"TypeError.prototype", "Error.prototype", "Object.prototype"}
    ELSE {GetV(InitHeap, ctor, "prototype"), "Error.prototype", "Object.prototype"}

\* calling f: [threw, ctor] with ctor the constructor of the thrown value
Call(h, f) ==
    IF f = "test"
    THEN LET c == GetV(h, f, TypedSlot)
         IN IF c \in Ctors THEN [threw |-> TRUE, ctor |-> c]
            ELSE [threw |-> TRUE, ctor |-> "TypeError"]
    ELSE IF f \in {"originalFunction", "MyClass.method1", "AnonClass.method1"}
    THEN [threw |-> TRUE, ctor |-> "CustomError"]
    ELSE [threw |-> FALSE, ctor |-> Undefined]

\* `error instanceof F` for a thrown error constructed by ctor:
\* "TypeError" when F is not callable or F.prototype is not an object
InstanceOf(h, ctor, F) ==
    IF TypeOf(h, F) # "function" THEN "TypeError"
    ELSE IF GetV(h, F, "prototype") = Undefined THEN "TypeError"
    ELSE IF GetV(h, F, "prototype") \in ErrorChain(ctor) THEN "true"
    ELSE "false"

(* ------------------------------- state --------------------------------- *)
\* heap       the objects (see InitHeap)
\* instances  the instances constructed so far; an instance has no own
\*            property, so two instances of one class are the same value
\* last       the most recent withErrors call: its arguments, the branch
\*            taken, its outcome and the heap it started from
\* thrown     the most recent call of a function or method since `last`
\* given      history of the configs given to each callable
\* ncalls     number of withErrors calls made
NoCall == [target |-> Undefined]
NotCalled == [by |-> Undefined]

\* given[f][k]: the constructor the most recent withErrors(f, E) with k an
\* own key of E gave for k (history variable)
NothingGiven == [f \in Callables |-> [k \in SlotNames |-> Undefined]]

OwnKeySet(o) == {o.props[i].key : i \in 1..Len(o.props)}

Init ==
    /\ heap = InitHeap
    /\ instances = {}
    /\ last = NoCall
    /\ thrown = NotCalled
    /\ given = NothingGiven
    /\ ncalls = 0

\* the configs a caller passes: error configs to callables, method configs
\* to classes (the tests' config alone for the targets that add no case)
ConfigsFor(target) ==
    CASE target = "test" -> {ErrorConfigs[e] : e \in ErrorConfigIds}
      [] target = "originalFunction" -> {ErrorConfigs["errors.CustomError"]}
      [] target = "MyClass" -> ClassConfigs
      [] target \in {"SubClass", "AnonClass"} -> {MethodConfig("method1", "errors.CustomError")}

\* a call withErrors(target, config)
WithErrors(target, config) ==
    /\ ncalls < MaxCalls
    /\ LET w == withErrors(heap, target, config) IN
        /\ heap' = w.r.heap
        /\ last' = [target |-> target, config |-> config, mode |-> w.mode,
                    threw |-> w.r.threw, ret |-> w.r.ret, pre |-> heap]
    /\ given' = IF target \in Callables
                THEN [given EXCEPT ![target] =
                        [k \in SlotNames |-> IF k \in OwnKeySet(config)
                                             THEN Get(heap, config, k) ELSE @[k]]]
                ELSE given
    /\ thrown' = NotCalled
    /\ ncalls' = ncalls + 1
    /\ UNCHANGED instances

\* new C()
New(C) ==
    /\ Cardinality(instances) < MaxInstances
    /\ instances' = instances \cup {Obj(<<>>, GetV(heap, C, "prototype"))}
    /\ UNCHANGED <<heap, last, thrown, given, ncalls>>

\* fn() for a callable
InvokeFunction(fn) ==
    /\ thrown' = [by |-> fn, result |-> Call(heap, fn)]
    /\ UNCHANGED <<heap, instances, last, given, ncalls>>

\* instance.method() on an instance
InvokeMethod(instance, methodName) ==
    /\ LET method == Get(heap, instance, methodName) IN
        /\ method \in Methods
        /\ thrown' = [by |-> method, result |-> Call(heap, method)]
    /\ UNCHANGED <<heap, instances, last, given, ncalls>>

Next ==
    \/ \E target \in Callables \cup Classes : \E config \in ConfigsFor(target) :
            WithErrors(target, config)
    \/ \E C \in Classes : New(C)
    \/ \E fn \in Callables : InvokeFunction(fn)
    \/ \E instance \in instances : InvokeMethod(instance, "method1")

Spec == Init /\ [][Next]_vars

(* ------------------------------ the claims ----------------------------- *)
Called == last.target # Undefined

\* the prototype object of class C as the call found it
PrototypeOf(h, C) == GetV(h, C, "prototype")

\* C1: a withErrors call that returns, returns the reference it was given
\* as target, in class mode and in callable mode, after any number of calls.
C1_SameReference == (Called /\ ~last.threw) => last.ret = last.target

C1_Witness ==
    /\ ncalls >= 2
    /\ last.mode = "class"
    /\ ~last.threw
    /\ heap # last.pre
    /\ last.ret = last.target

\* C2: no withErrors call throws, whatever the target and the config.
C2_NeverThrows == Called => ~last.threw

\* C3: after withErrors(fn, E) on a callable fn, fn[k] === E[k] for every
\* own key k of E, whatever property fn had under k before.
C3_CallablePostcondition ==
    (Called /\ last.target \in Callables) =>
        \A k \in OwnKeySet(last.config) :
            GetV(heap, last.target, k) = Get(heap, last.config, k)

\* C4: after withErrors(C, { m: { k: Ctor } }) on a class C with own method
\* m, instance.m.k === Ctor for every instance of C, whenever constructed.
C4_ClassPostcondition ==
    (Called /\ last.mode = "class" /\ Len(last.config.props) = 1) =>
        LET C == last.target
            m == last.config.props[1].key
            E == last.config.props[1].value
        IN (/\ HasOwn(last.pre[PrototypeOf(last.pre, C)], m)
            /\ Get(last.pre, last.pre[PrototypeOf(last.pre, C)], m) \in Methods
            /\ E \in ErrorConfigIds) =>
                \A instance \in instances : \A k \in OwnKeySet(ErrorConfigs[E]) :
                    (instance.proto = PrototypeOf(heap, C) /\ IsString(k)) =>
                        GetV(heap, Get(heap, instance, m), k) = GetV(heap, E, k)

\* the keys of a method config that the class branch skips: the lookup on
\* the prototype does not give a function
Skipped(h, C, config) ==
    {m \in OwnKeySet(config) : TypeOf(h, GetV(h, PrototypeOf(h, C), m)) # "function"}

\* the slot names of the error config under key m
SlotsOf(h, config, m) ==
    LET E == Get(h, config, m)
    IN IF E \in ErrorConfigIds
       THEN OwnKeySet(ErrorConfigs[E]) \cup {k \in SlotNames : GetV(h, E, k) # Undefined}
       ELSE {}

SameOwn(o1, o2, k) ==
    /\ HasOwn(o1, k) <=> HasOwn(o2, k)
    /\ HasOwn(o1, k) => OwnProp(o1, k) = OwnProp(o2, k)

C6_LastWriteWins ==
    \A f \in Callables : \A k \in SlotNames :
        given[f][k] # Undefined => GetV(heap, f, k) = given[f][k]

\* the last withErrors call returned and attached ctor to f under slot k
Attached(f, k, ctor) ==
    /\ Called
    /\ ~last.threw
    /\ \/ /\ last.mode = "callable"
          /\ last.target = f
          /\ \E i \in 1..Len(OwnEnumerableKeys(last.config)) :
                OwnEnumerableKeys(last.config)[i] = k
          /\ Get(last.pre, last.config, k) = ctor
       \/ /\ last.mode = "class"
          /\ \E m \in OwnKeySet(last.config) :
                LET E == Get(last.pre, last.config, m) IN
                /\ GetV(last.pre, PrototypeOf(last.pre, last.target), m) = f
                /\ \E i \in 1..Len(ForInKeys(last.pre, E)) : ForInKeys(last.pre, E)[i] = k
                /\ GetV(last.pre, E, k) = ctor

\* C7: when a function or method that throws an instance of Ctor has had
\* Ctor attached under slot k, calling it still throws an instance of Ctor,
\* and the thrown value is an instance of the slot value read back.
C7_ThrownIsInstanceOfSlot ==
    \A k \in SlotNames : \A ctor \in Ctors :
        (/\ thrown.by # Undefined
         /\ Attached(thrown.by, k, ctor)
         /\ Call(last.pre, thrown.by) = [threw |-> TRUE, ctor |-> ctor]) =>
            /\ thrown.result = [threw |-> TRUE, ctor |-> ctor]
            /\ InstanceOf(heap, thrown.result.ctor, GetV(heap, thrown.by, k)) = "true"

C7_Witness ==
    /\ thrown.by = "MyClass.method1"
    /\ Attached("MyClass.method1", "CustomError", "CustomError")
    /\ thrown.result.threw
    /\ InstanceOf(heap, thrown.result.ctor, GetV(heap, thrown.by, "CustomError")) = "true"

\* the function objects that are own methods of C named by keys of config
OwnMethodsNamed(h, C, config) ==
    {Get(h, h[PrototypeOf(h, C)], m) :
        m \in {n \in OwnKeySet(config) \ {"constructor"} :
                 /\ HasOwn(h[PrototypeOf(h, C)], n)
                 /\ Get(h, h[PrototypeOf(h, C)], n) \in Methods}}

\* C8: in class mode, every object other than C's own methods named in the
\* config is left as it was: the constructor, the prototypes, the methods of
\* parent classes and of Object.prototype, and C's other methods.
C8_ClassFrame ==
    (Called /\ last.mode = "class") =>
        \A id \in HeapIds \ OwnMethodsNamed(last.pre, last.target, last.config) :
            heap[id] = last.pre[id]

\* C9: a target takes the class branch if and only if it is a class.
C9_ModeDiscriminator ==
    Called => (last.mode = "class" <=> last.target \in Classes)

\* C10: for a method config { m: E } with m a method of C, the class branch
\* leaves on the method function exactly the properties that
\* withErrors(C.prototype.m, E) would leave on it.
C10_SameMerge ==
    (Called /\ last.mode = "class" /\ Len(last.config.props) = 1) =>
        LET m == last.config.props[1].key
            E == last.config.props[1].value
            method == GetV(last.pre, PrototypeOf(last.pre, last.target), m)
        IN (method \in Methods /\ E \in ErrorConfigIds) =>
              heap[method] = withErrors(last.pre, method, ErrorConfigs[E]).r.heap[method]

====
